---- MODULE Spec2Model ----
(***************************************************************************)
(* A model of compose.structs: the struct() record builder, its field      *)
(* classifier (sort_types), the protocol catalog (interfaces), the         *)
(* template table (templates, built by get_templates with                  *)
(* mkmeth.update_template) and the composer (compose / getmethod /         *)
(* mkmeth.mkmethod).                                                       *)
(*                                                                         *)
(* Source text is modelled as a sequence of tokens (strings).  The tokens  *)
(* are cut so that every string the code searches for with str.replace     *)
(* ('+', 'iter', 'self.attr') and the first '(' that update_template       *)
(* splits at is a token of its own.                                        *)
(***************************************************************************)
EXTENDS Naturals, Sequences, FiniteSets, TLC

VARIABLES interfaces, templates, built, err, inst, out, python

vars == <<interfaces, templates, built, err, inst, out, python>>

-----------------------------------------------------------------------------
(* Generic helpers on sequences.                                           *)

Range(s) == {s[i] : i \in 1..Len(s)}

RECURSIVE Flatten(_)
Flatten(ss) == IF ss = <<>> THEN <<>> ELSE Head(ss) \o Flatten(Tail(ss))

(* str.replace restricted to whole tokens *)
ReplaceTok(toks, old, new) ==
    [i \in 1..Len(toks) |-> IF toks[i] = old THEN new ELSE toks[i]]

(* index of the first occurrence of tok in toks, 0 when absent *)
IndexOf(toks, tok) ==
    IF \E i \in 1..Len(toks) : toks[i] = tok
    THEN CHOOSE i \in 1..Len(toks) :
            toks[i] = tok /\ \A j \in 1..(i-1) : toks[j] # tok
    ELSE 0

(* '__%s__' % n *)
Dunder(n) == "__" \o n \o "__"

-----------------------------------------------------------------------------
(* Module constants of structs.py.                                         *)

NO_INHERIT == {"__getattribute__", "__setattr__"}

DEFAULTS == {"__module__", "__qualname__", "__slots__", "__doc__",
             "__dict__", "__weakref__", "__annotations__"}

(* The literal dictionary of lines 44-73: category symbol -> the words of  *)
(* its value string, already split on whitespace.                          *)
interfaces_literal ==
    [k \in {"+", "-", "*", "@", "/", "//", "%", "**", "<<", ">>", "&", "^",
            "|", "~", "==", "!=", ">", "<", ">=", "<=", "()", "[]", ".",
            "in", "for", "with", "del", "await"} |->
       CASE k = "+"  -> <<"add", "radd">>
         [] k = "-"  -> <<"sub", "rsub">>
         [] k = "*"  -> <<"mul", "rmul">>
         [] k = "@"  -> <<"matmul", "rmatmul">>
         [] k = "/"  -> <<"truediv", "rtruediv">>
         [] k = "//" -> <<"floordiv", "rfloordiv">>
         [] k = "%"  -> <<"mod", "rmod">>
         [] k = "**" -> <<"pow", "rpow">>
         [] k = "<<" -> <<"lshift", "rlshift">>
         [] k = ">>" -> <<"rshift", "rrshift">>
         [] k = "&"  -> <<"and", "rand">>
         [] k = "^"  -> <<"xor", "rxor">>
         [] k = "|"  -> <<"or", "ror">>
         [] k = "~"  -> <<"invert">>
         [] k = "==" -> <<"eq">>
         [] k = "!=" -> <<"ne">>
         [] k = ">"  -> <<"gt">>
         [] k = "<"  -> <<"lt">>
         [] k = ">=" -> <<"ge">>
         [] k = "<=" -> <<"le">>
         [] k = "()" -> <<"call">>
         [] k = "[]" -> <<"getitem", "setitem", "delitem">>
         [] k = "."  -> <<"get", "set", "delete", "set_name">>
         [] k = "in" -> <<"contains">>
         [] k = "for" -> <<"iter">>
         [] k = "with" -> <<"enter", "exit">>
         [] k = "del" -> <<"del">>
         [] k = "await" -> <<"await">>]

(* lines 74-75: every word wrapped as '__%s__' *)
interfaces_init ==
    [k \in DOMAIN interfaces_literal |->
        [i \in 1..Len(interfaces_literal[k]) |->
            Dunder(interfaces_literal[k][i])]]

-----------------------------------------------------------------------------
(* mkmeth.py                                                               *)

(* trunc_source applied to the class of hand-written templates: a          *)
(* dictionary from the name of each callable member to its source.         *)
trunc_source ==
    [n \in {"__getitem__", "__setitem__", "__delitem__", "__getattr__",
            "__setattr__", "__get__", "__set__", "__add__", "__radd__",
            "__iadd__", "__pos__", "__iter__"} |->
       CASE n = "__getitem__" ->
              <<"def", n, "(", "self", ",", "index", ")", ":",
                "return", "self.attr", "[", "index", "]">>
         [] n = "__setitem__" ->
              <<"def", n, "(", "self", ",", "index", ",", "value", ")", ":",
                "self.attr", "[", "index", "]", "=", "value">>
         [] n = "__delitem__" ->
              <<"def", n, "(", "self", ",", "index", ")", ":",
                "del", "self.attr", "[", "index", "]">>
         [] n = "__getattr__" ->
              <<"def", n, "(", "self", ",", "attr", ")", ":",
                "return", "getattr", "(", "self.attr", ",", "attr", ")">>
         [] n = "__setattr__" ->
              <<"def", n, "(", "self", ",", "attr", ",", "value", ")", ":",
                "if", "attr", "in", "self.__slots__", ":",
                "object.__setattr__", "(", "self", ",", "attr", ",",
                "value", ")",
                "else", ":",
                "setattr", "(", "self.attr", ",", "attr", ",", "value", ")">>
         [] n = "__get__" ->
              <<"def", n, "(", "self", ")", ":", "return", "self.attr">>
         [] n = "__set__" ->
              <<"def", n, "(", "self", ",", "val", ")", ":",
                "self.attr", "=", "val">>
         [] n = "__add__" ->
              <<"def", n, "(", "self", ",", "other", ")", ":",
                "return", "self.attr", "+", "other">>
         [] n = "__radd__" ->
              <<"def", n, "(", "self", ",", "other", ")", ":",
                "return", "other", "+", "self.attr">>
         [] n = "__iadd__" ->
              <<"def", n, "(", "self", ",", "other", ")", ":",
                "self.attr", "+", "=", "other">>
         [] n = "__pos__" ->
              <<"def", n, "(", "self", ")", ":",
                "return", "+", "self.attr">>
         [] n = "__iter__" ->
              <<"def", n, "(", "self", ")", ":",
                "return", "iter", "(", "self.attr", ")">>]

(* update_template without the store into temps_dict: the text after the   *)
(* first '(' with the replacement applied, behind 'def <name>('.           *)
update_template(temp, name, string, rep) ==
    LET rest == SubSeq(temp, IndexOf(temp, "(") + 1, Len(temp))
    IN  <<"def", name, "(">> \o ReplaceTok(rest, string, rep)

(* call_from_meth_sig for the string signature: '(self, ' becomes '(' *)
call_from_meth_sig(sig) ==
    IF Len(sig) >= 3 /\ SubSeq(sig, 1, 3) = <<"(", "self", ",">>
    THEN <<"(">> \o SubSeq(sig, 4, Len(sig))
    ELSE sig

(* mkmethod(attr, name) with its default sig, ret and args: the generic    *)
(* forwarding method, whose body returns the call of self.<attr>.<name>    *)
(* with the positional and keyword arguments it was given.                 *)
mkmethod(attr, name) ==
    LET sig == <<"(", "self", ",", "*args", ",", "**kwargs", ")">>
    IN  <<"def", name>> \o sig \o <<":", "return", "self." \o attr, ".", name>>
        \o call_from_meth_sig(sig)

-----------------------------------------------------------------------------
(* get_templates                                                           *)

ops_arith == <<"-", "*", "@", "/", "//", "%", "**", "<<", ">>", "&", "^", "|">>
ns_arith  == <<"sub", "mul", "matmul", "truediv", "floordiv", "mod", "pow",
               "lshift", "rshift", "and", "xor", "or">>
ops_cmp   == <<"==", "!=", ">", "<", ">=", "<=">>
ns_cmp    == <<"eq", "ne", "gt", "lt", "ge", "le">>
iter_funcs == <<"repr", "str", "bytes", "hash", "dir", "bool", "reversed",
                "len", "iter", "abs", "complex", "int", "float">>

(* op_temp: update_template(temp, '__name__', ('+', op)) stored in the     *)
(* table under '__name__'.                                                 *)
op_temp(tab, temp, name, op) ==
    (Dunder(name) :> update_template(temp, Dunder(name), "+", op)) @@ tab

(* the loop of lines 111-114 *)
RECURSIVE arith_loop(_, _)
arith_loop(tab, i) ==
    IF i > Len(ops_arith) THEN tab
    ELSE LET t1 == op_temp(tab, trunc_source["__add__"], ns_arith[i],
                           ops_arith[i])
             t2 == op_temp(t1, trunc_source["__radd__"], "r" \o ns_arith[i],
                           ops_arith[i])
             t3 == op_temp(t2, trunc_source["__iadd__"], "i" \o ns_arith[i],
                           ops_arith[i])
         IN  arith_loop(t3, i + 1)

(* the loop of lines 117-118 *)
RECURSIVE cmp_loop(_, _)
cmp_loop(tab, i) ==
    IF i > Len(ops_cmp) THEN tab
    ELSE cmp_loop(op_temp(tab, trunc_source["__add__"], ns_cmp[i],
                          ops_cmp[i]), i + 1)

(* the loop of lines 123-126; iter_fn is read before the loop *)
RECURSIVE iter_loop(_, _)
iter_loop(tab, i) ==
    IF i > Len(iter_funcs) THEN tab
    ELSE LET nm == Dunder(iter_funcs[i])
             t  == (nm :> update_template(trunc_source["__iter__"], nm,
                                          "iter", iter_funcs[i])) @@ tab
         IN  iter_loop(t, i + 1)

get_templates ==
    LET t1 == arith_loop(trunc_source, 1)
        t2 == cmp_loop(t1, 1)
        t3 == op_temp(t2, trunc_source["__radd__"], "contains", "in")
        t4 == op_temp(t3, t3["__pos__"], "neg", "-")
        t5 == op_temp(t4, t4["__pos__"], "invert", "~")
    IN  iter_loop(t5, 1)

(* add_attr: template.replace('self.attr', 'self.' + attr) *)
add_attr(template, attr) == ReplaceTok(template, "self.attr", "self." \o attr)

-----------------------------------------------------------------------------
(* The declarations handed to struct().                                    *)
(*                                                                         *)
(* A class body is a sequence of entries of its namespace, in declaration  *)
(* order.  An entry is a record                                            *)
(*   k          the name                                                   *)
(*   tag        what the value is: "ellipsis" (the value ...), "provider"  *)
(*              (a Provider), "callable", "classmethod", "property",       *)
(*              "value" (any other object), "member" (the descriptor of a  *)
(*              slot of a pre-existing __slots__), "dunder" (the entries   *)
(*              Python itself puts in a class namespace)                   *)
(*   args       Provider.args                                              *)
(*   hasdefault Provider.default is not empty                              *)
(*   default    the default value (of a Provider, or the value itself)     *)
(* Python values are named by strings; Repr gives the text of repr().      *)

Entry(k, tag, args, hasdefault, default) ==
    [k |-> k, tag |-> tag, args |-> args, hasdefault |-> hasdefault,
     default |-> default]

Ellipsis(k)      == Entry(k, "ellipsis", <<>>, FALSE, "...")
Value(k, v)      == Entry(k, "value", <<>>, TRUE, v)
Callable(k)      == Entry(k, "callable", <<>>, FALSE, "fn")
ClassMethod(k)   == Entry(k, "classmethod", <<>>, FALSE, "fn")
Property(k)      == Entry(k, "property", <<>>, FALSE, "fn")
Member(k)        == Entry(k, "member", <<>>, FALSE, "slot")
DunderEntry(k)   == Entry(k, "dunder", <<>>, FALSE, "py")
(* a Provider without and with the keyword default: lines 165-167 *)
Provider(k, args)            == Entry(k, "provider", args, FALSE, "empty")
ProviderDefault(k, args, v)  == Entry(k, "provider", args, TRUE, v)

Decl(bases, frozen, escape_setattr, slots, annotations, body) ==
    [bases |-> bases, frozen |-> frozen, escape_setattr |-> escape_setattr,
     slots |-> slots, annotations |-> annotations, body |-> body]

(* cls.__dict__ of the declared class: the namespace of the class body,    *)
(* where an annotation without a value leaves no entry of its own (its     *)
(* name is only a key of __annotations__), the slot descriptors that       *)
(* type() adds for a declared __slots__, and the __hash__ = None that      *)
(* type() adds to a class whose body defines __eq__ and no __hash__.       *)
ClassDict(d) ==
    <<DunderEntry("__module__"), DunderEntry("__qualname__")>>
    \o (IF d.annotations # <<>> THEN <<DunderEntry("__annotations__")>>
        ELSE <<>>)
    \o (IF d.slots # <<>> THEN <<DunderEntry("__slots__")>> ELSE <<>>)
    \o d.body
    \o [i \in 1..Len(d.slots) |-> Member(d.slots[i])]
    \o (IF d.slots = <<>>
        THEN <<DunderEntry("__dict__"), DunderEntry("__weakref__")>>
        ELSE <<>>)
    \o <<DunderEntry("__doc__")>>
    \o (IF /\ \E i \in 1..Len(d.body) : d.body[i].k = "__eq__"
           /\ \A i \in 1..Len(d.body) : d.body[i].k # "__hash__"
        THEN <<Value("__hash__", "None")>>
        ELSE <<>>)

(* repr() of a default value; "obj" stands for an object whose repr is not *)
(* a Python expression (object() prints as <object object at 0x...>).      *)
Repr(v) == IF v = "obj" THEN "<object object at 0x>" ELSE v

(* whether the text is an expression exec() accepts *)
IsExpression(text) == text # "<object object at 0x>"

(* the names that are not Python identifiers: a def of such a name does    *)
(* not compile                                                             *)
NotIdentifiers == {"+=", "<>"}
IsIdentifier(name) == name \notin NotIdentifiers

(* Classes a Provider can be given (inspect.isclass): the names in         *)
(* __abstractmethods__ and the entries of the class's own __dict__.        *)
ClassTable ==
    [c \in {"Proto"} |->
        [abstractmethods |-> <<"__len__">>,
         dict |-> <<Callable("__len__"), Callable("__setattr__"),
                    Callable("close"), Value("x", "0")>>]]

inspect_isclass(arg) == arg \in DOMAIN ClassTable

-----------------------------------------------------------------------------
(* structs.py: Provider.__iter__, _unpack, _decifer_callables              *)

(* callable(v): functions are; classmethod and property objects, slot      *)
(* descriptors, Ellipsis, Providers and plain values are not               *)
callable(e) == e.tag = "callable"

decifer_callables(c) ==
    ClassTable[c].abstractmethods
    \o LET own == SelectSeq(ClassTable[c].dict,
                            LAMBDA e : callable(e) /\ e.k \notin NO_INHERIT)
       IN  [i \in 1..Len(own) |-> own[i].k]

(* the operation names one argument of a Provider resolves to *)
unpack(I, arg) ==
    IF inspect_isclass(arg) THEN decifer_callables(arg)
    ELSE IF arg \in DOMAIN I THEN I[arg]
    ELSE <<arg>>

(* Provider.__iter__: the names of all its arguments, in order *)
provider_iter(I, args) == Flatten([i \in 1..Len(args) |-> unpack(I, args[i])])

-----------------------------------------------------------------------------
(* sort_types                                                              *)

sort_step(acc, e) ==
    IF e.k \in DEFAULTS THEN acc
    ELSE IF e.tag = "ellipsis"
         THEN [acc EXCEPT !.args = Append(@, e.k)]
    ELSE IF e.tag = "provider"
         THEN IF ~e.hasdefault
              THEN [acc EXCEPT !.providers = Append(@, e),
                               !.args = Append(@, e.k)]
              ELSE [acc EXCEPT !.providers = Append(@, e),
                               !.kwargs = Append(@, <<e.k, e.default>>)]
    ELSE IF callable(e) \/ e.tag \in {"classmethod", "property"}
         THEN [acc EXCEPT !.callables = Append(@, e)]
    ELSE IF e.k \notin Range(acc.slots)
         THEN [acc EXCEPT !.kwargs = Append(@, <<e.k, e.default>>)]
    ELSE acc

RECURSIVE sort_loop(_, _, _)
sort_loop(dct, i, acc) ==
    IF i > Len(dct) THEN acc
    ELSE sort_loop(dct, i + 1, sort_step(acc, dct[i]))

(* dct.get('__slots__') or [] is the declared layout *)
sort_types(d) ==
    sort_loop(ClassDict(d), 1,
              [slots |-> d.slots, args |-> <<>>, kwargs |-> <<>>,
               callables |-> <<>>, providers |-> <<>>])

-----------------------------------------------------------------------------
(* The built class.                                                        *)
(*                                                                         *)
(* A class is a record                                                     *)
(*   slots      cls.__slots__                                              *)
(*   args       the required parameters of __init__ (after self)           *)
(*   kwargs     the defaulted parameters, each <<name, text of default>>   *)
(*   init_body  the statements of __init__, each <<attr, guarded>>:        *)
(*              guarded is object.__setattr__(self, 'attr', attr), plain   *)
(*              is self.attr = attr                                        *)
(*   post_init  the body ends with self._init()                            *)
(*   dict       the members set on the class itself: name -> member,       *)
(*              a member being [kind, code]                                *)

Member_(kind, code) == [kind |-> kind, code |-> code]

(* what every class inherits from object: hasattr() finds these names on   *)
(* any class produced by STRUCT_TEMPLATE                                   *)
ObjectMembers ==
    {"__class__", "__delattr__", "__dir__", "__doc__", "__eq__",
     "__format__", "__ge__", "__getattribute__", "__gt__", "__hash__",
     "__init__", "__init_subclass__", "__le__", "__lt__", "__ne__",
     "__new__", "__reduce__", "__reduce_ex__", "__repr__", "__setattr__",
     "__sizeof__", "__str__", "__subclasshook__"}

(* what every class finds on its metaclass, type; __or__ and __ror__ are   *)
(* members of type from Python 3.10 on                                     *)
Interpreters == {"3.5", "3.10"}

TypeMembers ==
    {"__call__", "__instancecheck__", "__subclasscheck__", "__subclasses__",
     "__prepare__", "mro", "__name__", "__qualname__", "__module__",
     "__bases__", "__base__", "__mro__", "__dict__", "__basicsize__",
     "__itemsize__", "__flags__", "__weakrefoffset__", "__dictoffset__",
     "__text_signature__"}
    \cup (IF python = "3.10"
          THEN {"__or__", "__ror__", "__annotations__"} ELSE {})

(* hasattr(cls, name) for a class: its own members, those of object, then  *)
(* those of type                                                           *)
hasattr(cls, name) ==
    \/ name \in DOMAIN cls.dict
    \/ name \in ObjectMembers
    \/ name \in TypeMembers

setattr(dict, k, v) == (k :> v) @@ dict

(* mkclass: exec of STRUCT_TEMPLATE.  It raises (SyntaxError) when the     *)
(* text of a default is not an expression, and when init_body is empty:    *)
(* a def without a statement.                                              *)
mkclass_raises(vals) ==
    \/ \E i \in 1..Len(vals.kwargs) : ~IsExpression(vals.kwargs[i][2])
    \/ vals.init_body = <<>> /\ ~vals.post_init

mkclass(vals) ==
    [slots |-> vals.slots, args |-> vals.args, kwargs |-> vals.kwargs,
     init_body |-> vals.init_body, post_init |-> vals.post_init,
     dict |-> [n \in {"__slots__", "__init__"} \cup Range(vals.slots) |->
                 IF n = "__slots__" THEN Member_("slots", <<>>)
                 ELSE IF n = "__init__" THEN Member_("init", <<>>)
                 ELSE Member_("member", <<>>)]]

(* getmethod without the fallback: a name the table lacks raises *)
getmethod_no_fallback(T, attr, name) ==
    LET code == IF name \in DOMAIN T THEN add_attr(T[name], attr)
                ELSE mkmethod(attr, name)
    IN  [raises |-> name \notin DOMAIN T \/ ~IsIdentifier(code[2]),
         fn |-> Member_("composed", code),
         templates |-> T]

(* getmethod that keeps the text it rendered in the table *)
getmethod_caching(T, attr, name) ==
    LET code == IF name \in DOMAIN T THEN add_attr(T[name], attr)
                ELSE mkmethod(attr, name)
    IN  [raises |-> ~IsIdentifier(code[2]),
         fn |-> Member_("composed", code),
         templates |-> (name :> code) @@ T]

(* getmethod: the template of that name with the field substituted, or     *)
(* when the table has none (KeyError) mkmethod's generic forwarder; exec   *)
(* of the text raises when it does not compile.  The table is read, never  *)
(* written: the result carries it as the call leaves it.                   *)
getmethod(T, attr, name) ==
    LET code == IF name \in DOMAIN T THEN add_attr(T[name], attr)
                ELSE mkmethod(attr, name)
    IN  [raises |-> ~IsIdentifier(code[2]),
         fn |-> Member_("composed", code),
         templates |-> T]

(* the (attr, name) pairs the two loops of compose visit, in order *)
compose_pairs(I, providers) ==
    Flatten([i \in 1..Len(providers) |->
        LET names == provider_iter(I, providers[i].args)
        IN  [j \in 1..Len(names) |-> <<providers[i].k, names[j]>>]])

compose_guard(cls, name) == ~hasattr(cls, name) \/ name \in NO_INHERIT

RECURSIVE compose_loop(_, _, _, _)
compose_loop(T, cls, pairs, i) ==
    IF i > Len(pairs) THEN [raises |-> FALSE, cls |-> cls, templates |-> T]
    ELSE IF compose_guard(cls, pairs[i][2])
         THEN LET m == getmethod(T, pairs[i][1], pairs[i][2])
              IN  IF m.raises
                  THEN [raises |-> TRUE, cls |-> cls,
                        templates |-> m.templates]
                  ELSE compose_loop(m.templates,
                         [cls EXCEPT !.dict = setattr(@, pairs[i][2], m.fn)],
                         pairs, i + 1)
    ELSE compose_loop(T, cls, pairs, i + 1)

compose(T, I, cls, providers) ==
    compose_loop(T, cls, compose_pairs(I, providers), 1)

(* the user's own members, set on the class in the order of the dict *)
RECURSIVE set_callables(_, _, _)
set_callables(dict, callables, i) ==
    IF i > Len(callables) THEN dict
    ELSE set_callables(
            setattr(dict, callables[i].k, Member_(callables[i].tag, <<>>)),
            callables, i + 1)

(* the layout rebuilt from the parameters alone *)
extend_slots_replacing(slots, names) == names

(* __slots__.extend(args) *)
extend_slots(slots, names) == slots \o names

(* struct(cls, escape_setattr, frozen) for a class given: the result is    *)
(* either the built class or the exception raised, with the two shared     *)
(* tables as the call leaves them.                                         *)
struct(T, I, d) ==
    IF Len(d.bases) > 1 \/ d.bases[1] # "object"
    THEN [error |-> "Inheritance", cls |-> <<>>,
          templates |-> T, interfaces |-> I]
    ELSE
    LET st      == sort_types(d)
        names   == st.args \o [i \in 1..Len(st.kwargs) |-> st.kwargs[i][1]]
        guarded == d.escape_setattr \/ d.frozen
        vals    == [args |-> st.args,
                    kwargs |-> [i \in 1..Len(st.kwargs) |->
                                  <<st.kwargs[i][1], Repr(st.kwargs[i][2])>>],
                    init_body |-> [i \in 1..Len(names) |->
                                     <<names[i], guarded>>],
                    post_init |-> \E i \in 1..Len(st.callables) :
                                     st.callables[i].k = "_init",
                    slots |-> extend_slots(st.slots, names)]
    IN  IF mkclass_raises(vals)
        THEN [error |-> "SyntaxError", cls |-> <<>>,
              templates |-> T, interfaces |-> I]
        ELSE
        LET c0 == mkclass(vals)
            d1 == IF \E i \in 1..Len(ClassDict(d)) :
                        ClassDict(d)[i].k = "__repr__"
                  THEN c0.dict
                  ELSE setattr(c0.dict, "__repr__",
                               Member_("struct_repr", <<>>))
            d2 == set_callables(d1, st.callables, 1)
            d3 == IF d.frozen
                  THEN setattr(d2, "__setattr__",
                               Member_("frozen_setattr", <<>>))
                  ELSE d2
            r  == compose(T, I, [c0 EXCEPT !.dict = d3], st.providers)
        IN  IF r.raises
            THEN [error |-> "SyntaxError", cls |-> <<>>,
                  templates |-> r.templates, interfaces |-> I]
            ELSE [error |-> "none", cls |-> r.cls,
                  templates |-> r.templates, interfaces |-> I]

-----------------------------------------------------------------------------
(* Instances of a built class: what the generated code does when it runs.  *)

Vals == {"0", "1"}

NoInst == [tid |-> 0, vals |-> <<>>]
(* what an operation on an instance did: it raised op, it returned the     *)
(* value of  l op r, or it did something else; name and arg are the       *)
(* operation and its operand                                               *)
Outcome(kind, op, l, r) ==
    [kind |-> kind, op |-> op, l |-> l, r |-> r, name |-> "", arg |-> ""]
NoOut              == Outcome("none", "", "", "")
Raise(exc)         == Outcome("raise", exc, "", "")
Returned(op, l, r) == Outcome("value", op, l, r)
Did(what)          == Outcome(what, "", "", "")

(* A composed __getattribute__ is mkmethod's forwarder, whose body reads   *)
(* self.<attr> and so calls itself: every attribute read on the instance   *)
(* ends in RecursionError.                                                 *)
Recursing(cls) ==
    /\ "__getattribute__" \in DOMAIN cls.dict
    /\ cls.dict["__getattribute__"].kind = "composed"

(* the statements after the colon of a def *)
Body(code) == SubSeq(code, IndexOf(code, ":") + 1, Len(code))

(* the field a token self.<f> names, "" when it names none *)
SelfField(tok, fields) ==
    IF \E f \in fields : tok = "self." \o f
    THEN CHOOSE f \in fields : tok = "self." \o f
    ELSE ""

(* A composed method called with one operand x.  For a body                *)
(*     return <operand> <op> <operand>                                     *)
(* the result is the delegate's own <op> applied to the two operands, in   *)
(* that order; it is kept symbolic, as Returned(op, left, right).          *)
exec_binary(cls, vals, code, x) ==
    LET body == Body(code)
        val(tok) == IF tok = "other" THEN x
                    ELSE IF SelfField(tok, DOMAIN vals) # ""
                         THEN vals[SelfField(tok, DOMAIN vals)]
                    ELSE "?"
    IN  IF Len(body) = 4 /\ body[1] = "return"
        THEN IF Recursing(cls) /\ (body[2] # "other" \/ body[4] # "other")
             THEN Raise("RecursionError")
             ELSE IF "unset" \in {val(body[2]), val(body[4])}
                  THEN Raise("AttributeError")
                  ELSE Returned(body[3], val(body[2]), val(body[4]))
        ELSE Did("other")

(* type(s).<name>(s, x) for a binary operation name *)
call_binary(cls, vals, name, x) ==
    IF name \in DOMAIN cls.dict
    THEN IF cls.dict[name].kind = "composed"
         THEN exec_binary(cls, vals, cls.dict[name].code, x)
         ELSE Did("user")
    ELSE IF name \in ObjectMembers THEN Did("object")
    ELSE Raise("TypeError")

(* s.<f> = v through the class's __setattr__; user_stores is what a        *)
(* user-written __setattr__ does with the value.                           *)
setattr_outcome(cls, vals, f, v, user_stores) ==
    LET stored == [vals |-> [vals EXCEPT ![f] = v], out |-> Did("stored")]
        kept(o) == [vals |-> vals, out |-> o]
        m == IF "__setattr__" \in DOMAIN cls.dict
             THEN cls.dict["__setattr__"].kind ELSE "object"
    IN  CASE m = "frozen_setattr" ->
               (* reads self.__class__.__name__, then raises *)
               IF Recursing(cls) THEN kept(Raise("RecursionError"))
               ELSE kept(Raise("Frozen"))
          [] m = "composed" ->
               (* the template: if attr in self.__slots__ ... else ... *)
               IF Recursing(cls) THEN kept(Raise("RecursionError"))
               ELSE IF f \in Range(cls.slots) THEN stored
               ELSE kept(Did("forwarded"))
          [] m = "object" ->
               IF f \in Range(cls.slots) THEN stored
               ELSE kept(Raise("AttributeError"))
          [] OTHER ->
               IF user_stores /\ f \in Range(cls.slots) THEN stored
               ELSE kept(Did("user"))

(* the body of the generated __init__, statement by statement *)
RECURSIVE init_loop(_, _, _, _, _)
init_loop(cls, vals, argv, user_stores, i) ==
    IF i > Len(cls.init_body) THEN [vals |-> vals, out |-> Did("new")]
    ELSE LET f == cls.init_body[i][1]
         IN  IF cls.init_body[i][2]
             THEN init_loop(cls, [vals EXCEPT ![f] = argv[f]], argv,
                            user_stores, i + 1)
             ELSE LET r == setattr_outcome(cls, vals, f, argv[f], user_stores)
                  IN  IF r.out.kind = "raise" THEN r
                      ELSE init_loop(cls, r.vals, argv, user_stores, i + 1)

(* the parameter names of the generated __init__, in order *)
Params(cls) == cls.args \o [i \in 1..Len(cls.kwargs) |-> cls.kwargs[i][1]]

(* the values bound to the parameters when every required parameter is     *)
(* given v and the defaulted ones are given v too or left out               *)
Bind(cls, v, use_defaults) ==
    [f \in Range(Params(cls)) |->
        IF use_defaults /\ \E i \in 1..Len(cls.kwargs) : cls.kwargs[i][1] = f
        THEN (CHOOSE kw \in Range(cls.kwargs) : kw[1] = f)[2]
        ELSE v]

-----------------------------------------------------------------------------
(* The declarations the model draws from.                                  *)

MaxBody  == 3
MaxBuilt == 2

Object == <<"object">>

ProviderArgs ==
    {<<c>> : c \in DOMAIN interfaces_literal}
    \cup {<<"__setattr__">>, <<"__getattribute__">>, <<"frob">>, <<"+=">>,
          <<"Proto">>, <<"==", "+">>, <<"__len__">>}

ClashArgs == {<<"for">>, <<"__setattr__">>, <<"__getattribute__">>,
              <<"+">>, <<"==">>, <<"frob">>}

UserMembers ==
    {Callable(n) : n \in {"__iter__", "__setattr__", "__getattribute__",
                          "__add__", "__radd__", "__eq__", "frob"}}
    \cup {ClassMethod("frob"), Property("frob"), Property("__iter__")}

(* one delegating field and one defaulted field *)
OneProvider ==
    {Decl(Object, fz, FALSE, <<>>, <<>>, <<Provider("a", r), Value("b", "0")>>)
        : r \in ProviderArgs, fz \in BOOLEAN}

(* two delegating fields that may ask for the same operations *)
TwoProviders ==
    {Decl(Object, fz, FALSE, <<>>, <<>>, <<Provider("a", r1), Provider("b", r2)>>)
        : r1 \in ClashArgs, r2 \in ClashArgs, fz \in BOOLEAN}
    \cup {Decl(Object, FALSE, FALSE, <<>>, <<>>,
               <<ProviderDefault("a", r, "1"), Provider("b", r)>>)
        : r \in ClashArgs}

(* a delegating field beside a member the user wrote *)
WithUserMember ==
    {Decl(Object, fz, FALSE, <<>>, <<>>, <<Provider("a", r), u>>)
        : r \in ClashArgs, u \in UserMembers, fz \in BOOLEAN}
    \cup {Decl(Object, FALSE, es, <<>>, <<>>, <<u, Provider("a", r)>>)
        : r \in ClashArgs, u \in UserMembers, es \in BOOLEAN}

(* every class body of at most MaxBody of these entries, in every order *)
Pool == {Ellipsis("a"), Ellipsis("b"), Value("c", "0"), Value("d", "None"),
         ProviderDefault("e", <<"+">>, "1"), Callable("_init")}

RECURSIVE Bodies(_)
Bodies(n) ==
    IF n = 0 THEN {<<>>}
    ELSE LET shorter == Bodies(n - 1)
         IN  shorter \cup
             {Append(b, e) : b \in {x \in shorter : Len(x) = n - 1},
                             e \in Pool}

DistinctNames(b) == \A i, j \in 1..Len(b) : b[i].k = b[j].k => i = j

Mixed ==
    {Decl(Object, FALSE, FALSE, <<>>, <<>>, b)
        : b \in {x \in Bodies(MaxBody) : DistinctNames(x)}}

(* a pre-existing __slots__, annotations without a value, other bases, a   *)
(* default whose repr is no expression                                     *)
LinkedList ==
    Decl(Object, FALSE, FALSE, <<>>, <<"head", "tail">>,
         <<Value("tail", "None"), ClassMethod("new"), Callable("__iter__"),
           Callable("__repr__"), Callable("__radd__")>>)

Special ==
    {Decl(Object, fz, FALSE, sl, an, b)
        : fz \in BOOLEAN, sl \in {<<>>, <<"z">>},
          an \in {<<>>, <<"h">>, <<"h", "c">>},
          b \in {<<>>, <<Value("c", "0")>>,
                 <<Value("c", "0"), Ellipsis("a")>>}}
    \cup {LinkedList,
          Decl(<<"Base">>, FALSE, FALSE, <<>>, <<>>, <<Ellipsis("a")>>),
          Decl(<<"Base", "Mixin">>, TRUE, FALSE, <<>>, <<>>,
               <<Provider("a", <<"+">>)>>),
          Decl(Object, FALSE, FALSE, <<>>, <<>>,
               <<Ellipsis("a"), Value("c", "obj")>>)}

Decls == OneProvider \cup TwoProviders \cup WithUserMember \cup Mixed
         \cup Special

(* the declarations of a run that builds several records *)
SeqDecls ==
    {Decl(Object, FALSE, FALSE, <<>>, <<>>, <<Ellipsis("a"), Value("c", "0")>>),
     Decl(Object, FALSE, FALSE, <<>>, <<>>, <<Provider("a", <<"+">>)>>),
     Decl(Object, FALSE, FALSE, <<>>, <<>>, <<Provider("a", <<"frob">>)>>),
     Decl(Object, FALSE, FALSE, <<>>, <<>>, <<Provider("a", <<"+=">>)>>),
     Decl(Object, FALSE, FALSE, <<>>, <<>>, <<Value("c", "obj")>>),
     Decl(<<"Base">>, FALSE, FALSE, <<>>, <<>>, <<Ellipsis("a")>>),
     Decl(Object, TRUE, FALSE, <<>>, <<>>, <<Provider("a", <<"__setattr__">>)>>),
     Decl(Object, FALSE, FALSE, <<>>, <<>>,
          <<Provider("a", <<"for">>), Callable("__iter__")>>),
     Decl(Object, FALSE, FALSE, <<>>, <<>>,
          <<Provider("a", <<"==">>), Provider("b", <<"==">>)>>),
     Decl(Object, FALSE, TRUE, <<"z">>, <<>>, <<Value("c", "1")>>),
     Decl(Object, TRUE, FALSE, <<>>, <<"h">>, <<ProviderDefault("a", <<"[]">>, "0")>>),
     Decl(<<"Base", "Mixin">>, FALSE, FALSE, <<>>, <<>>, <<>>)}

(* the declarations of a run that goes on to use the record *)
InstDecls ==
    OneProvider
    \cup {d \in TwoProviders : d.body[1].args = d.body[2].args}
    \cup {d \in WithUserMember :
            /\ d.body[1].tag = "provider" /\ ~d.escape_setattr
            /\ d.body[2].k \in {"__setattr__", "__eq__", "__radd__"}
            /\ d.body[1].args \in {<<"__setattr__">>, <<"==">>, <<"+">>}}
    \cup {d \in Special : d.body # <<>> /\ d.annotations = <<>>}

NoDecl == Decl(<<>>, FALSE, FALSE, <<>>, <<>>, <<>>)

-----------------------------------------------------------------------------
(* The state machine.                                                      *)
(*   interfaces, templates   the module's two shared tables                *)
(*   built                   the classes struct() has returned, each with  *)
(*                           the declaration it was built from             *)
(*   err                     the last struct() call: its declaration and   *)
(*                           the exception it raised ("none": it returned) *)
(*   inst                    an instance of built[inst.tid], its slots     *)
(*   out                     what the last operation on the instance did   *)
(*   python                  the interpreter the module runs on            *)

Init ==
    /\ interfaces = interfaces_init
    /\ templates = get_templates
    /\ built = <<>>
    /\ err = [error |-> "none", decl |-> NoDecl]
    /\ inst = NoInst
    /\ out = NoOut
    /\ python \in Interpreters

(* one call struct(cls, escape_setattr, frozen); at most max classes are   *)
(* built                                                                   *)
Struct(D, max) ==
    /\ Len(built) < max
    /\ \E d \in D :
          LET r == struct(templates, interfaces, d)
          IN  /\ built' = IF r.error = "none"
                          THEN Append(built, [decl |-> d, cls |-> r.cls])
                          ELSE built
              /\ err' = [error |-> r.error, decl |-> d]
              /\ templates' = r.templates
              /\ interfaces' = r.interfaces
    /\ UNCHANGED <<inst, out, python>>

(* s = cls(...) *)
New ==
    \E t \in 1..Len(built), v \in Vals, use_defaults, user_stores \in BOOLEAN :
        LET cls  == built[t].cls
            argv == Bind(cls, v, use_defaults)
            r    == init_loop(cls, [f \in Range(cls.slots) |-> "unset"],
                              argv, user_stores, 1)
        IN  /\ inst' = IF r.out.kind = "raise" THEN NoInst
                       ELSE [tid |-> t, vals |-> r.vals]
            /\ out' = [r.out EXCEPT !.name = "__init__", !.arg = v]
            /\ UNCHANGED <<interfaces, templates, built, err, python>>

(* s.f = v *)
SetAttr ==
    /\ inst.tid # 0
    /\ \E f \in Range(built[inst.tid].cls.slots) \cup {"other"}, v \in Vals,
          user_stores \in BOOLEAN :
          LET r == setattr_outcome(built[inst.tid].cls, inst.vals, f, v,
                                   user_stores)
          IN  /\ inst' = [inst EXCEPT !.vals = r.vals]
              /\ out' = [r.out EXCEPT !.name = "__setattr__", !.l = f,
                                        !.arg = v]
    /\ UNCHANGED <<interfaces, templates, built, err, python>>

BinaryNames ==
    {Dunder(ns_cmp[i]) : i \in 1..Len(ns_cmp)}
    \cup {Dunder(ns_arith[i]) : i \in 1..Len(ns_arith)}
    \cup {Dunder("r" \o ns_arith[i]) : i \in 1..Len(ns_arith)}
    \cup {"__add__", "__radd__"}

(* the operation names the Providers of a declaration resolve to *)
Requested(I, d) ==
    LET ps == SelectSeq(d.body, LAMBDA e : e.tag = "provider")
    IN  {p[2] : p \in Range(compose_pairs(I, ps))}

(* s <op> x and x <op> s for an operation the record asked to delegate:    *)
(* the method of the class called with x                                   *)
Call ==
    /\ inst.tid # 0
    /\ \E name \in BinaryNames \cap Requested(interfaces, built[inst.tid].decl),
          x \in Vals :
          out' = [call_binary(built[inst.tid].cls, inst.vals, name, x)
                    EXCEPT !.name = name, !.arg = x]
    /\ UNCHANGED <<interfaces, templates, built, err, inst, python>>

StructOne  == Struct(Decls, 1)
StructSeq  == Struct(SeqDecls, MaxBuilt)
StructInst == Struct(InstDecls, 1)

(* one record is declared *)
Next == StructOne
Spec == Init /\ [][Next]_vars

(* several records are declared, one after the other *)
NextSeq == StructSeq
SpecSeq == Init /\ [][NextSeq]_vars

(* one record is declared, then instances of it are made and used *)
NextInst == StructInst \/ New \/ SetAttr \/ Call
SpecInst == Init /\ [][NextInst]_vars

-----------------------------------------------------------------------------
(* Vocabulary of the properties.                                           *)

Providers(d) == SelectSeq(d.body, LAMBDA e : e.tag = "provider")

(* the declaration assigns a member of that name in its body *)
UserDefined(d, name) == \E e \in Range(d.body) : e.k = name

(* the Providers of d that resolve the operation name, in declaration      *)
(* order                                                                   *)
Resolving(d, name) ==
    SelectSeq(Providers(d),
              LAMBDA p : name \in Range(provider_iter(interfaces, p.args)))

(* p is the first Provider of d that resolves name, and d does not define  *)
(* name itself                                                             *)
FirstFor(d, p, name) ==
    /\ ~UserDefined(d, name)
    /\ Resolving(d, name) # <<>>
    /\ Resolving(d, name)[1] = p

Fields(d) == {e.k : e \in Range(d.body)}

(* the field whose value a composed method reads, "" when it reads none *)
Target(m, d) ==
    IF \E f \in Fields(d) : ("self." \o f) \in Range(m.code)
    THEN CHOOSE f \in Fields(d) : ("self." \o f) \in Range(m.code)
    ELSE ""

ForwardCode(name, f, op) ==
    <<"def", name, "(", "self", ",", "other", ")", ":",
      "return", "self." \o f, op, "other">>

ReverseCode(name, f, op) ==
    <<"def", name, "(", "self", ",", "other", ")", ":",
      "return", "other", op, "self." \o f>>

GenericCode(name, f) ==
    <<"def", name, "(", "self", ",", "*args", ",", "**kwargs", ")", ":",
      "return", "self." \o f, ".", name, "(", "*args", ",", "**kwargs", ")">>

ArithCats == <<"+", "-", "*", "@", "/", "//", "%", "**", "<<", ">>", "&",
               "^", "|">>
ArithFwd  == <<"__add__", "__sub__", "__mul__", "__matmul__", "__truediv__",
               "__floordiv__", "__mod__", "__pow__", "__lshift__",
               "__rshift__", "__and__", "__xor__", "__or__">>
ArithRev  == <<"__radd__", "__rsub__", "__rmul__", "__rmatmul__",
               "__rtruediv__", "__rfloordiv__", "__rmod__", "__rpow__",
               "__rlshift__", "__rrshift__", "__rand__", "__rxor__",
               "__ror__">>
CmpCats   == <<"==", "!=", ">", "<", ">=", "<=">>
CmpNames  == <<"__eq__", "__ne__", "__gt__", "__lt__", "__ge__", "__le__">>

-----------------------------------------------------------------------------
(* C1.  For every operation name a Provider of the declaration resolves    *)
(* to: if the declaration itself defines a member of that name (a method,  *)
(* classmethod or property), the member of the built class is still the    *)
(* user's.  The code breaks this for __setattr__ and __getattribute__,     *)
(* which compose() attaches whatever the class already has.                *)
C1_UserMemberKept ==
    \A i \in 1..Len(built) :
        \A e \in Range(built[i].decl.body) :
            (/\ e.tag \in {"callable", "classmethod", "property"}
             /\ e.k \in Requested(interfaces, built[i].decl))
            => built[i].cls.dict[e.k] = Member_(e.tag, <<>>)

(* C2.  For a record built with frozen=True, making an instance succeeds   *)
(* and every assignment to a declared field raises Frozen.  The code       *)
(* breaks this when a Provider names __setattr__: the composed method      *)
(* replaces frozen_setattr and stores the value.  (Stated for the records  *)
(* whose attribute reads work; with a composed __getattribute__ the write  *)
(* ends in RecursionError instead.)                                        *)
C2_FrozenAlwaysRaises ==
    (built # <<>> /\ built[1].decl.frozen /\ ~Recursing(built[1].cls)) =>
        /\ out.name = "__init__" => out.kind = "new"
        /\ (out.name = "__setattr__"
            /\ out.l \in Range(Params(built[1].cls)))
           => (out.kind = "raise" /\ out.op = "Frozen")

(* C3.  For a Provider of a comparison category on field f, in a record    *)
(* that does not define the operation itself, s <op> x returns what        *)
(* s.f <op> x returns.  The code never attaches a comparison: hasattr()    *)
(* finds the six names on every class (object defines them), so the call   *)
(* runs object's own comparison.                                           *)
C3_ComparisonForwards ==
    \A k \in 1..Len(CmpCats) :
        (inst.tid # 0 /\ out.name = CmpNames[k]) =>
            LET d  == built[inst.tid].decl
                ps == SelectSeq(Providers(d),
                                LAMBDA p : CmpCats[k] \in Range(p.args))
            IN  (ps # <<>> /\ ~UserDefined(d, CmpNames[k])
                 /\ inst.vals[ps[1].k] # "unset"
                 /\ ~Recursing(built[inst.tid].cls))
                => /\ out.kind = "value"
                   /\ out.op = CmpCats[k]
                   /\ out.l = inst.vals[ps[1].k]
                   /\ out.r = out.arg

(* C4.  For every arithmetic category op requested on field f, the forward *)
(* and the reverse operation are members of the built class; where f's     *)
(* request is the one that provides the name (the record does not define   *)
(* it and no earlier field requested it) the forward method is             *)
(* "return self.f op other" and the reverse one "return other op self.f",  *)
(* and calling them on an instance returns the delegate's op applied to    *)
(* the operands in that order.  compose() skips a name hasattr() finds,    *)
(* and on an interpreter whose type defines __or__ and __ror__ it finds    *)
(* them on every class: category | attaches nothing there.                 *)
C4_ArithmeticForwardReverse ==
    /\ \A i \in 1..Len(built) :
         \A k \in 1..Len(ArithCats) :
           \A p \in Range(Providers(built[i].decl)) :
             ArithCats[k] \in Range(p.args) =>
               /\ {ArithFwd[k], ArithRev[k]} \subseteq DOMAIN built[i].cls.dict
               /\ FirstFor(built[i].decl, p, ArithFwd[k]) =>
                    built[i].cls.dict[ArithFwd[k]] =
                      Member_("composed",
                              ForwardCode(ArithFwd[k], p.k, ArithCats[k]))
               /\ FirstFor(built[i].decl, p, ArithRev[k]) =>
                    built[i].cls.dict[ArithRev[k]] =
                      Member_("composed",
                              ReverseCode(ArithRev[k], p.k, ArithCats[k]))
    /\ inst.tid # 0 =>
         \A k \in 1..Len(ArithCats) :
           \A p \in Range(Providers(built[inst.tid].decl)) :
             (/\ inst.vals[p.k] # "unset"
              /\ ~Recursing(built[inst.tid].cls)) =>
               /\ (out.name = ArithFwd[k]
                   /\ FirstFor(built[inst.tid].decl, p, ArithFwd[k]))
                  => out = [Returned(ArithCats[k], inst.vals[p.k], out.arg)
                              EXCEPT !.name = ArithFwd[k], !.arg = out.arg]
               /\ (out.name = ArithRev[k]
                   /\ FirstFor(built[inst.tid].decl, p, ArithRev[k]))
                  => out = [Returned(ArithCats[k], out.arg, inst.vals[p.k])
                              EXCEPT !.name = ArithRev[k], !.arg = out.arg]

(* the fields the class body declares, as the parameters they should be *)
ExpectedRequired(d) ==
    LET es == SelectSeq(d.body,
                 LAMBDA e : e.tag = "ellipsis"
                            \/ (e.tag = "provider" /\ ~e.hasdefault))
    IN  [i \in 1..Len(es) |-> es[i].k]

ExpectedDefaulted(d) ==
    LET es == SelectSeq(d.body,
                 LAMBDA e : e.tag = "value"
                            \/ (e.tag = "provider" /\ e.hasdefault))
    IN  [i \in 1..Len(es) |-> <<es[i].k, Repr(es[i].default)>>]

(* C5.  The parameters of the generated __init__ are the required fields   *)
(* (the value ... or a Provider without default) in declaration order,     *)
(* then the defaulted fields (a plain value or a Provider with default) in *)
(* declaration order with the text of their defaults; methods,             *)
(* classmethods and properties are no parameters, and a delegated field is *)
(* a parameter once.  The fields are those the class body assigns.  The    *)
(* code reads the fields from cls.__dict__, where a body that defines      *)
(* __eq__ has left __hash__ = None: it becomes a parameter as well.        *)
C5_ConstructorParameters ==
    \A i \in 1..Len(built) :
        LET d == built[i].decl
            c == built[i].cls
        IN  /\ c.args = ExpectedRequired(d)
            /\ c.kwargs = ExpectedDefaulted(d)
            /\ \A e \in Range(d.body) :
                 e.tag \in {"callable", "classmethod", "property"}
                 => e.k \notin Range(Params(c))
            /\ \A e \in Range(d.body) :
                 e.tag = "provider"
                 => Cardinality({j \in 1..Len(Params(c)) :
                                    Params(c)[j] = e.k}) = 1

(* C6.  A field declared only by an annotation is a required parameter and *)
(* a slot of the built class, before the other required fields and in      *)
(* annotation order.  The code never sees such a field: its name is only a *)
(* key of __annotations__, which sort_types skips.                         *)
C6_AnnotationOnlyRequired ==
    \A i \in 1..Len(built) :
        LET d    == built[i].decl
            c    == built[i].cls
            only == SelectSeq(d.annotations, LAMBDA n : ~UserDefined(d, n))
        IN  /\ Len(c.args) >= Len(only)
            /\ SubSeq(c.args, 1, Len(only)) = only
            /\ Range(only) \subseteq Range(c.slots)

(* C7.  The operations a Provider names that are neither a category of     *)
(* the catalog nor a name of the template table (nor a class).             *)
Unknown(x) ==
    /\ ~inspect_isclass(x)
    /\ x \notin DOMAIN interfaces
    /\ x \notin DOMAIN templates

UnknownArgs(d) ==
    {x \in UNION {Range(p.args) : p \in Range(Providers(d))} : Unknown(x)}

WellFormed(d) ==
    /\ d.bases = Object
    /\ \A e \in Range(d.body) : e.hasdefault => IsExpression(Repr(e.default))

C8_SharedTablesUntouched ==
    /\ [](interfaces = interfaces_init /\ templates = get_templates)
    /\ [][/\ Len(built') >= Len(built)
          /\ SubSeq(built', 1, Len(built)) = built]_vars

(* a call raised in getmethod after a class was built from a declaration   *)
(* that delegates through the generic forwarder                            *)
C8_Witness ==
    /\ Len(built) >= 1
    /\ UnknownArgs(built[1].decl) # {}
    /\ err.error = "SyntaxError"
    /\ Providers(err.decl) # <<>>

(* C9 as claimed: __slots__ of the built class is the parameter list of    *)
(* its __init__, also when the declaration has a __slots__ of its own.     *)
C9_SlotsAreParameters ==
    \A i \in 1..Len(built) :
        built[i].cls.slots = Params(built[i].cls)

(* C9 as the code has it: __slots__ is the declaration's own __slots__     *)
(* followed by the parameter list, in order; the names of the declared     *)
(* __slots__ are no parameters, so the two lists are equal exactly when    *)
(* the declaration has no __slots__ of its own.                            *)
C9_SlotsExtendDeclared ==
    \A i \in 1..Len(built) :
        LET d == built[i].decl
            c == built[i].cls
        IN  /\ c.slots = d.slots \o Params(c)
            /\ Range(d.slots) \cap Range(Params(c)) = {}
            /\ (c.slots = Params(c)) <=> (d.slots = <<>>)
            /\ Len(c.init_body) = Len(Params(c))
            /\ \A j \in 1..Len(Params(c)) : c.init_body[j][1] = Params(c)[j]

(* a declaration with __slots__ = ("z",) and two fields was built *)
C9_Witness ==
    \E i \in 1..Len(built) :
        /\ built[i].decl.slots = <<"z">>
        /\ built[i].cls.slots = <<"z", "a", "c">>
        /\ Params(built[i].cls) = <<"a", "c">>

(* the names two or more Providers of d resolve and d does not define *)
RequestedTwice(d) ==
    {n \in Requested(interfaces, d) :
        Len(Resolving(d, n)) >= 2 /\ ~UserDefined(d, n)}

(* C10.  When two Providers on different fields resolve the same name and  *)
(* the declaration does not define it, the method of the built class       *)
(* forwards to the field declared first; for __getattribute__ and          *)
(* __setattr__ it forwards to the field declared last.  The first half     *)
(* fails for the names object defines (__eq__ and the like, see C3):       *)
(* neither request is attached.                                            *)
C10_FirstRequestWins ==
    \A i \in 1..Len(built) :
        LET d == built[i].decl
            c == built[i].cls
        IN  \A n \in RequestedTwice(d) :
              /\ n \in DOMAIN c.dict
              /\ c.dict[n].kind = "composed"
              /\ Target(c.dict[n], d) =
                   IF n \in NO_INHERIT
                   THEN Resolving(d, n)[Len(Resolving(d, n))].k
                   ELSE Resolving(d, n)[1].k

(* what holds of a name requested twice: the first wins where the class    *)
(* has no such member before compose(), the last for the two names of      *)
(* NO_INHERIT, and no request is attached for a name found on object or    *)
(* on type                                                                 *)
RequestedTwiceResolution ==
    \A i \in 1..Len(built) :
        LET d == built[i].decl
            c == built[i].cls
        IN  \A n \in RequestedTwice(d) :
              IF n \in NO_INHERIT
              THEN Target(c.dict[n], d) =
                     Resolving(d, n)[Len(Resolving(d, n))].k
              ELSE IF n \in ObjectMembers \cup TypeMembers
              THEN n \notin DOMAIN c.dict
              ELSE Target(c.dict[n], d) = Resolving(d, n)[1].k

====
